---- MODULE Spec2Model ----
(***************************************************************************)
(* F1 race predictor: the /api/predict handler of app.py (Perturbation     *)
(* Ranker + rank renumbering + aggregate statistics) and predict_race /    *)
(* fallback_prediction of scripts/demo.py (Pluggable Predictor).           *)
(*                                                                         *)
(* Numbers.  Python floats are modelled as exact fixed-point integers:     *)
(*   - weights and uniform/gauss draws in hundredths (100 = 1.0);          *)
(*   - products weight * draw, total_change and confidences in units of    *)
(*     1/10000 (10000 = 1.0);                                              *)
(*   - demo.py skill bonus and noise in tenths (10 = 1.0).                 *)
(* Qualifying times are abstract integers: only their order matters.       *)
(* The arithmetic is exact: rounding error and the non-finite floats (inf,  *)
(* nan) are outside the model.                                             *)
(***************************************************************************)
EXTENDS Integers, Sequences, FiniteSets, TLC

VARIABLES
    DRIVERS,            \* app.py module-level reference table
    pc,                 \* position of the /api/predict handler
    data,               \* request.get_json(): a dict, keys may be missing
    qualifying,         \* data.get('qualifying', {}) as a sequence of <<code, time>>
    weights,            \* data.get('weights', {}) as a function name -> value
    sorted_quali,       \* sorted(qualifying.items(), key=time)
    i,                  \* enumerate index of the for loop (0-based)
    predictions,        \* list of prediction dicts
    total_confidence,   \* running sum of confidences (1/10000)
    response,           \* the jsonify'd body, once returned
    error,              \* the exception that ended the handler, or "none"
    predictor,          \* demo.py: an F1DemoPredictor and its predict_race call
    predictor2,         \* demo.py: a second F1DemoPredictor (paired runs)
    fb,                 \* demo.py: one fallback_prediction call, arguments and result
    threads,            \* app.py: the frames of predict() in two server threads
    calc,               \* app.py: one evaluation of an expression of predict()
    dl                  \* download_data.py: a download_season_data run

appVars == <<DRIVERS, pc, data, qualifying, weights, sorted_quali, i,
             predictions, total_confidence, response, error>>

demoVars == <<predictor, predictor2>>
fbVars == <<fb>>
thrVars == <<threads>>
calcVars == <<calc>>
dlVars == <<dl>>

vars == <<appVars, demoVars, fbVars, thrVars, calcVars, dlVars>>

----------------------------------------------------------------------------
(* Bounds of the model *)

\* qualifying times are drawn from 1..MaxTime (MaxTime >= 2 gives exact ties
\* and both orders)
MaxTime == 2

\* at most MaxField entries in a qualifying input (with the three codes of
\* Codes and of DemoCodes this covers every dict over them)
MaxField == 3

----------------------------------------------------------------------------
(* Generic helpers for Python built-ins *)

Max(a, b) == IF a >= b THEN a ELSE b
Min(a, b) == IF a <= b THEN a ELSE b
Abs(a) == IF a >= 0 THEN a ELSE -a

\* Python int(x) on a float x = a / b (b > 0): truncation toward zero
TruncDiv(a, b) == IF a >= 0 THEN a \div b ELSE -((-a) \div b)

\* Python round(x, 1) expressed on x = a / b, returning the nearest multiple
\* (no exact halves occur for the inputs of the model: a is even, b = 10)
RoundDiv(a, b) == IF a >= 0 THEN (2 * a + b) \div (2 * b)
                  ELSE -((2 * (-a) + b) \div (2 * b))

\* dict.get(key, default) on a dict modelled as a function
Get(d, key, default) == IF key \in DOMAIN d THEN d[key] ELSE default

\* rank (1-based) of element j of keys in a stable ascending sort
StableRank(keys, j) ==
    1 + Cardinality({k \in DOMAIN keys :
                        \/ keys[k] < keys[j]
                        \/ (keys[k] = keys[j] /\ k < j)})

\* StableSort putting, among equal keys, the later element first
StableSort_TiesReversed(seq, keys) ==
    [r \in 1..Len(seq) |->
        seq[CHOOSE j \in 1..Len(seq) :
               1 + Cardinality({k \in DOMAIN keys :
                                   \/ keys[k] < keys[j]
                                   \/ (keys[k] = keys[j] /\ k > j)}) = r]]

\* Python sorted(seq, key=...) / list.sort(key=...): stable, ascending.
\* keys[j] is the key of seq[j].
StableSort(seq, keys) ==
    [r \in 1..Len(seq) |->
        seq[CHOOSE j \in 1..Len(seq) : StableRank(keys, j) = r]]

Range(s) == {s[j] : j \in DOMAIN s}

----------------------------------------------------------------------------
(* app.py *)

\* DRIVERS (app.py:15-36)
DRIVERS_TABLE ==
    [c \in {"VER", "TSU", "HAM", "LEC", "RUS", "ANT", "NOR", "PIA", "ALO",
            "STR", "GAS", "COL", "OCO", "BEA", "TSU2", "LAW", "HUL", "BOR",
            "ALB", "SAI2"} |->
      CASE c = "VER"  -> [name |-> "Max Verstappen",        team |-> "Red Bull",     number |-> 1]
        [] c = "TSU"  -> [name |-> "Yuki Tsunoda",          team |-> "Red Bull",     number |-> 22]
        [] c = "HAM"  -> [name |-> "Lewis Hamilton",        team |-> "Ferrari",      number |-> 44]
        [] c = "LEC"  -> [name |-> "Charles Leclerc",       team |-> "Ferrari",      number |-> 16]
        [] c = "RUS"  -> [name |-> "George Russell",        team |-> "Mercedes",     number |-> 63]
        [] c = "ANT"  -> [name |-> "Andrea Kimi Antonelli", team |-> "Mercedes",     number |-> 12]
        [] c = "NOR"  -> [name |-> "Lando Norris",          team |-> "McLaren",      number |-> 4]
        [] c = "PIA"  -> [name |-> "Oscar Piastri",         team |-> "McLaren",      number |-> 81]
        [] c = "ALO"  -> [name |-> "Fernando Alonso",       team |-> "Aston Martin", number |-> 14]
        [] c = "STR"  -> [name |-> "Lance Stroll",          team |-> "Aston Martin", number |-> 18]
        [] c = "GAS"  -> [name |-> "Pierre Gasly",          team |-> "Alpine",       number |-> 10]
        [] c = "COL"  -> [name |-> "Franco Colapinto",      team |-> "Alpine",       number |-> 19]
        [] c = "OCO"  -> [name |-> "Esteban Ocon",          team |-> "Haas",         number |-> 31]
        [] c = "BEA"  -> [name |-> "Oliver Bearman",        team |-> "Haas",         number |-> 87]
        [] c = "TSU2" -> [name |-> "Isack Hadjar",          team |-> "Racing Bulls", number |-> 6]
        [] c = "LAW"  -> [name |-> "Liam Lawson",           team |-> "Racing Bulls", number |-> 30]
        [] c = "HUL"  -> [name |-> "Nico Hulkenberg",       team |-> "Sauber",       number |-> 27]
        [] c = "BOR"  -> [name |-> "Gabriel Bortoleto",     team |-> "Sauber",       number |-> 5]
        [] c = "ALB"  -> [name |-> "Alex Albon",            team |-> "Williams",     number |-> 23]
        [] c = "SAI2" -> [name |-> "Carlos Sainz",          team |-> "Williams",     number |-> 55]]

\* entrant codes a request may carry: codes of DRIVERS and codes unknown to it
KnownCodes == {"VER", "HAM"}
UnknownCodes == {"XXX"}
Codes == KnownCodes \cup UnknownCodes

\* a JSON object {code: time, ...} in insertion order: distinct codes
QualifyingInputs ==
    {q \in UNION {[1..n -> Codes \X (1..MaxTime)] : n \in 0..MaxField} :
        \A j, k \in DOMAIN q : j # k => q[j][1] # q[k][1]}

\* weight dicts a request may carry (hundredths): all missing, the two
\* assignments of the spec's statistical property, negative and above-1 values
WeightInputs ==
    { <<>>,
      [quali |-> 100, pace |-> 0, tire |-> 0, weather |-> 0, strategy |-> 0],
      [quali |-> 0,   pace |-> 0, tire |-> 0, weather |-> 0, strategy |-> 0],
      [quali |-> -100, pace |-> -200, tire |-> 300, weather |-> 150],
      [quali |-> 300, pace |-> 200] }

\* request bodies: 'qualifying' and 'weights' may each be missing
Requests ==
    {[qualifying |-> q, weights |-> w] : q \in QualifyingInputs, w \in WeightInputs}
    \cup {[qualifying |-> q] : q \in QualifyingInputs}
    \cup {[weights |-> w] : w \in WeightInputs}

\* random.gauss(0, 2) (app.py:831), hundredths
GaussDraws == {-1200, -150, -50, 0, 50, 150, 1200}
\* random.uniform(lo, hi) (app.py:835-838, 844), hundredths: both ends and
\* the middle
UniformDraws(lo, hi) == {lo, (lo + hi) \div 2, hi}

\* app.py:823  sorted(qualifying.items(), key=lambda x: x[1])
SortQualifying(q) == StableSort(q, [j \in DOMAIN q |-> q[j][2]])

\* quali_factor with 0 as the default of a missing 'quali'
quali_factor_DefaultZero(w) == Get(w, "quali", 0) * 50

\* app.py:834  weights.get('quali', 0.7) * 0.5, in 1/10000
quali_factor(w) == Get(w, "quali", 70) * 50

\* app.py:840  total_change, in 1/10000
total_change(w, g, up, ut, uw, us) ==
    g * 100
    + Get(w, "pace", 60) * up
    + Get(w, "tire", 45) * ut
    + Get(w, "weather", 30) * uw
    + Get(w, "strategy", 50) * us

\* predicted_pos truncating the perturbation before adding it to the place
predicted_pos_TruncDelta(n, tc) ==
    Max(1, Min(10, n + 1 + TruncDiv(tc, 10000)))

\* app.py:841  max(1, min(10, int(i + 1 + total_change)))
predicted_pos(n, tc) == Max(1, Min(10, TruncDiv((n + 1) * 10000 + tc, 10000)))

\* app.py:844-845  confidence, in 1/10000; uc is the uniform(0, 0.2) draw (hundredths)
confidence(w, uc) ==
    Min(9500, Max(4000, 5000 + (quali_factor(w) * 30) \div 100 + uc * 100))

\* PredictionDict reporting the raw predicted position as the qualifying
\* position
PredictionDict_QualifyingIsPos(code, n, pos, conf) ==
    [position |-> pos,
     name |-> DRIVERS[code].name,
     team |-> DRIVERS[code].team,
     number |-> DRIVERS[code].number,
     qualifying |-> pos,
     change |-> pos - (n + 1),
     confidence |-> conf]

\* app.py:849-857  the appended dict
PredictionDict(code, n, pos, conf) ==
    [position |-> pos,
     name |-> DRIVERS[code].name,
     team |-> DRIVERS[code].team,
     number |-> DRIVERS[code].number,
     qualifying |-> n + 1,
     change |-> pos - (n + 1),
     confidence |-> conf]

\* Renumber with the renumbering loop left out: sorted, raw positions kept
Renumber_SortOnly(preds) ==
    StableSort(preds, [j \in DOMAIN preds |-> preds[j].position])

\* Renumber adding the new delta to the stored one instead of replacing it
Renumber_AddChange(preds) ==
    LET s == StableSort(preds, [j \in DOMAIN preds |-> preds[j].position])
    IN [j \in DOMAIN s |-> [s[j] EXCEPT !.position = j,
                                        !.change = @ + j - s[j].qualifying]]

\* Renumber assigning the new positions and keeping the delta of the raw one
Renumber_KeepChange(preds) ==
    LET s == StableSort(preds, [j \in DOMAIN preds |-> preds[j].position])
    IN [j \in DOMAIN s |-> [s[j] EXCEPT !.position = j]]

\* app.py:859-865  sort by position, then renumber and recompute change
Renumber(preds) ==
    LET s == StableSort(preds, [j \in DOMAIN preds |-> preds[j].position])
    IN [j \in DOMAIN s |-> [s[j] EXCEPT !.position = j,
                                        !.change = j - s[j].qualifying]]

\* accuracy rounding 10 x quali to the nearest integer instead of truncating
accuracy_Rounded(w) == 68 + RoundDiv(Get(w, "quali", 70) * 10, 100)

\* volatility truncated to one decimal instead of rounded
volatility_Truncated(w) == TruncDiv(350 - Get(w, "quali", 70) * 2, 10)

\* app.py:869
accuracy(w) == 68 + TruncDiv(Get(w, "quali", 70) * 10, 100)
\* avgConfidence dividing by the number of qualifying entries, skipped
\* unknown codes included
avgConfidence_PerEntry(total, n) == TruncDiv(total, Len(sorted_quali) * 100)

\* app.py:870  int(total_confidence / len(predictions) * 100)
avgConfidence(total, n) == TruncDiv(total, n * 100)
\* app.py:871  round(3.5 - quali * 2, 1), in tenths
volatility(w) == RoundDiv(350 - Get(w, "quali", 70) * 2, 10)

NoResponse == [predictions |-> <<>>, accuracy |-> 0, avgConfidence |-> 0,
               volatility |-> 0]

\* app.py:816-826  a request arrives; parse it, sort the qualifying entries
predict_begin ==
    /\ pc = "idle"
    /\ \E d \in Requests :
        /\ data' = d
        /\ qualifying' = Get(d, "qualifying", <<>>)
        /\ weights' = Get(d, "weights", <<>>)
        /\ sorted_quali' = SortQualifying(Get(d, "qualifying", <<>>))
    /\ i' = 0
    /\ predictions' = <<>>
    /\ total_confidence' = 0
    /\ response' = NoResponse
    /\ error' = "none"
    /\ pc' = "loop"
    /\ UNCHANGED <<DRIVERS, demoVars, fbVars, thrVars, calcVars, dlVars>>

\* app.py:831-841  the raw predicted positions the random draws can give the
\* entrant at enumerate index n
PositionOutcomes(w, n) ==
    {predicted_pos(n, total_change(w, g, up, ut, uw, us)) :
        g \in GaussDraws,
        up \in UniformDraws(-100, 100), ut \in UniformDraws(-50, 50),
        uw \in UniformDraws(-30, 30), us \in UniformDraws(-80, 80)}

\* app.py:844-845  the confidences the random draw can give
ConfidenceOutcomes(w) == {confidence(w, uc) : uc \in UniformDraws(0, 20)}

\* PositionOutcomes tabulated over the weight dicts and indices of the model
\* (a constant, evaluated once)
PositionTable ==
    [w \in WeightInputs, n \in 0..(MaxField - 1) |-> PositionOutcomes(w, n)]

\* predict_loop leaving the loop at the first unknown code instead of
\* skipping it
predict_loop_BreakOnUnknown ==
    /\ pc = "loop"
    /\ i < Len(sorted_quali)
    /\ LET code == sorted_quali[i + 1][1] IN
        IF code \in DOMAIN DRIVERS
        THEN /\ \E pos \in PositionTable[weights, i],
                   conf \in ConfidenceOutcomes(weights) :
                   /\ total_confidence' = total_confidence + conf
                   /\ predictions' = Append(predictions,
                                            PredictionDict(code, i, pos, conf))
             /\ i' = i + 1
        ELSE /\ UNCHANGED <<predictions, total_confidence>>
             /\ i' = Len(sorted_quali)
    /\ UNCHANGED <<DRIVERS, pc, data, qualifying, weights, sorted_quali,
                   response, error, demoVars, fbVars, thrVars, calcVars, dlVars>>

\* predict_loop writing the grid place of the entrant into its DRIVERS entry
predict_loop_WritesDrivers ==
    /\ pc = "loop"
    /\ i < Len(sorted_quali)
    /\ LET code == sorted_quali[i + 1][1] IN
        IF code \in DOMAIN DRIVERS
        THEN /\ \E pos \in PositionTable[weights, i],
                   conf \in ConfidenceOutcomes(weights) :
                   /\ total_confidence' = total_confidence + conf
                   /\ predictions' = Append(predictions,
                                            PredictionDict(code, i, pos, conf))
             /\ DRIVERS' = [DRIVERS EXCEPT ![code].number = i + 1]
        ELSE UNCHANGED <<predictions, total_confidence, DRIVERS>>
    /\ i' = i + 1
    /\ UNCHANGED <<pc, data, qualifying, weights, sorted_quali,
                   response, error, demoVars, fbVars, thrVars, calcVars, dlVars>>

\* app.py:828-857  one iteration of the for loop
predict_loop ==
    /\ pc = "loop"
    /\ i < Len(sorted_quali)
    /\ LET code == sorted_quali[i + 1][1] IN
        IF code \in DOMAIN DRIVERS
        THEN \E pos \in PositionTable[weights, i],
                conf \in ConfidenceOutcomes(weights) :
                /\ total_confidence' = total_confidence + conf
                /\ predictions' = Append(predictions,
                                         PredictionDict(code, i, pos, conf))
        ELSE UNCHANGED <<predictions, total_confidence>>
    /\ i' = i + 1
    /\ UNCHANGED <<DRIVERS, pc, data, qualifying, weights, sorted_quali,
                   response, error, demoVars, fbVars, thrVars, calcVars, dlVars>>

\* app.py:859-872  sort, renumber, aggregate and return
predict_return ==
    /\ pc = "loop"
    /\ i = Len(sorted_quali)
    /\ predictions' = Renumber(predictions)
    /\ IF Len(predictions) = 0
       THEN \* total_confidence / len(predictions) raises ZeroDivisionError
            /\ error' = "ZeroDivisionError"
            /\ pc' = "failed"
            /\ UNCHANGED response
       ELSE /\ response' = [predictions |-> Renumber(predictions),
                            accuracy |-> accuracy(weights),
                            avgConfidence |-> avgConfidence(total_confidence,
                                                            Len(predictions)),
                            volatility |-> volatility(weights)]
            /\ pc' = "done"
            /\ UNCHANGED error
    /\ UNCHANGED <<DRIVERS, data, qualifying, weights, sorted_quali, i,
                   total_confidence, demoVars, fbVars, thrVars, calcVars, dlVars>>

\* the response (or the error) has been sent: the handler's frame is gone and
\* the server waits for the next request
predict_end ==
    /\ pc \in {"done", "failed"}
    /\ pc' = "idle"
    /\ data' = <<>>
    /\ qualifying' = <<>>
    /\ weights' = <<>>
    /\ sorted_quali' = <<>>
    /\ i' = 0
    /\ predictions' = <<>>
    /\ total_confidence' = 0
    /\ response' = NoResponse
    /\ error' = "none"
    /\ UNCHANGED <<DRIVERS, demoVars, fbVars, thrVars, calcVars, dlVars>>

NextApp == predict_begin \/ predict_loop \/ predict_return \/ predict_end

----------------------------------------------------------------------------
(* app.py: predict() running in two server threads.  Every name predict()    *)
(* assigns is a local of the call, so each thread has a frame of its own;    *)
(* the module-level DRIVERS is read by both.  The random generator is the    *)
(* other shared object: its draws are nondeterministic inputs of each step.  *)

Threads == {1, 2}

\* the frame of a thread that is not serving a request
NewFrame ==
    [pc |-> "idle", data |-> <<>>, qualifying |-> <<>>, weights |-> <<>>,
     sorted_quali |-> <<>>, i |-> 0, predictions |-> <<>>,
     total_confidence |-> 0, response |-> NoResponse, error |-> "none",
     draws |-> <<>>,
     raw |-> <<>>]

\* qualifying inputs of the threaded requests: empty, one known entrant, a
\* known entrant behind an unknown one, two known entrants with equal times
ThreadQualifying ==
    { <<>>,
      << <<"VER", 1>> >>,
      << <<"HAM", 2>>, <<"XXX", 1>> >>,
      << <<"HAM", 1>>, <<"VER", 1>> >> }

\* the baseline of each weight name (app.py:834-838), hundredths
BaselineWeights ==
    [quali |-> 70, pace |-> 60, tire |-> 45, weather |-> 30, strategy |-> 50]

\* weight dicts of the threaded requests: the baseline passed explicitly, two
\* names set and three omitted, and the same with the omitted names passed
ThreadWeights ==
    { BaselineWeights,
      [quali |-> 300, pace |-> 200],
      [quali |-> 300, pace |-> 200, tire |-> 45, weather |-> 30,
       strategy |-> 50] }

\* values of the 'track' field
Tracks == {"Monaco - Street Circuit", "Silverstone - High Speed"}

\* request bodies with a 'qualifying' key; 'weights' and 'track' may each be
\* missing
ThreadRequests ==
    {[qualifying |-> q, weights |-> w, track |-> t] :
        q \in ThreadQualifying, w \in ThreadWeights, t \in Tracks}
    \cup {[qualifying |-> q, weights |-> w] :
        q \in ThreadQualifying, w \in ThreadWeights}
    \cup {[qualifying |-> q, track |-> t] :
        q \in ThreadQualifying, t \in Tracks}
    \cup {[qualifying |-> q] : q \in ThreadQualifying}

\* what the random generator returns during one iteration (app.py:831-844):
\* gauss(0, 2), the four uniform factors and uniform(0, 0.2), hundredths
ThreadDraws ==
    { [g |-> 150,  up |-> 100,  ut |-> 50,  uw |-> 30,  us |-> 80,  uc |-> 20],
      [g |-> -150, up |-> -100, ut |-> -50, uw |-> -30, us |-> -80, uc |-> 0] }

\* FrameBegin consuming 'track': on the street circuit the weights of the
\* request are replaced by the baselines
FrameBegin_StreetCircuit(d) ==
    [pc |-> "loop",
     data |-> d,
     qualifying |-> Get(d, "qualifying", <<>>),
     weights |-> IF Get(d, "track", "") = "Monaco - Street Circuit"
                 THEN <<>> ELSE Get(d, "weights", <<>>),
     sorted_quali |-> SortQualifying(Get(d, "qualifying", <<>>)),
     i |-> 0,
     predictions |-> <<>>,
     total_confidence |-> 0,
     response |-> NoResponse,
     error |-> "none",
     draws |-> <<>>,
     raw |-> <<>>]

\* app.py:818-826  the frame after parsing request body d
FrameBegin(d) ==
    [pc |-> "loop",
     data |-> d,
     qualifying |-> Get(d, "qualifying", <<>>),
     weights |-> Get(d, "weights", <<>>),
     sorted_quali |-> SortQualifying(Get(d, "qualifying", <<>>)),
     i |-> 0,
     predictions |-> <<>>,
     total_confidence |-> 0,
     response |-> NoResponse,
     error |-> "none",
     draws |-> <<>>,
     raw |-> <<>>]

\* FrameLoop inserting the new record at the head of predictions
FrameLoop_Prepend(f, dr) ==
    LET code == f.sorted_quali[f.i + 1][1]
        pos == predicted_pos(f.i, total_change(f.weights, dr.g, dr.up, dr.ut,
                                               dr.uw, dr.us))
        conf == confidence(f.weights, dr.uc)
    IN IF code \in DOMAIN DRIVERS
       THEN [f EXCEPT !.i = @ + 1,
                      !.predictions = <<PredictionDict(code, f.i, pos, conf)>> \o @,
                      !.total_confidence = @ + conf,
                      !.draws = Append(@, dr)]
       ELSE [f EXCEPT !.i = @ + 1]

\* app.py:828-857  one iteration of the for loop in frame f; dr is what the
\* random generator returns if the iteration draws.  draws is a history of
\* the draws the call consumed.
FrameLoop(f, dr) ==
    LET code == f.sorted_quali[f.i + 1][1]
        pos == predicted_pos(f.i, total_change(f.weights, dr.g, dr.up, dr.ut,
                                               dr.uw, dr.us))
        conf == confidence(f.weights, dr.uc)
    IN IF code \in DOMAIN DRIVERS
       THEN [f EXCEPT !.i = @ + 1,
                      !.predictions = Append(@, PredictionDict(code, f.i, pos, conf)),
                      !.total_confidence = @ + conf,
                      !.draws = Append(@, dr)]
       ELSE [f EXCEPT !.i = @ + 1]

\* app.py:859-872  sort, renumber, aggregate and return.  raw is a history
\* of the records as they were before the sort.
FrameReturn(f) ==
    IF Len(f.predictions) = 0
    THEN \* total_confidence / len(predictions) raises ZeroDivisionError
         [f EXCEPT !.predictions = Renumber(@),
                   !.raw = f.predictions,
                   !.error = "ZeroDivisionError",
                   !.pc = "failed"]
    ELSE [f EXCEPT !.predictions = Renumber(@),
                   !.raw = f.predictions,
                   !.response = [predictions |-> Renumber(f.predictions),
                                 accuracy |-> accuracy(f.weights),
                                 avgConfidence |->
                                     avgConfidence(f.total_confidence,
                                                   Len(f.predictions)),
                                 volatility |-> volatility(f.weights)],
                   !.pc = "done"]

\* a request arrives at an idle thread
thread_begin ==
    /\ \E t \in Threads, d \in ThreadRequests :
        /\ threads[t].pc = "idle"
        /\ threads' = [threads EXCEPT ![t] = FrameBegin(d)]
    /\ UNCHANGED <<appVars, demoVars, fbVars, calcVars, dlVars>>

\* thread_loop with predictions as one module-level list: the other thread,
\* if in its loop, sees the list the iteration appended to
thread_loop_SharedPredictions ==
    /\ \E t \in Threads, dr \in ThreadDraws :
        /\ threads[t].pc = "loop"
        /\ threads[t].i < Len(threads[t].sorted_quali)
        /\ threads' =
             [u \in Threads |->
                IF u = t THEN FrameLoop(threads[t], dr)
                ELSE IF threads[u].pc = "loop"
                     THEN [threads[u] EXCEPT
                              !.predictions = FrameLoop(threads[t], dr).predictions]
                     ELSE threads[u]]
    /\ UNCHANGED <<appVars, demoVars, fbVars, calcVars, dlVars>>

\* a thread runs one iteration of its loop
thread_loop ==
    /\ \E t \in Threads, dr \in ThreadDraws :
        /\ threads[t].pc = "loop"
        /\ threads[t].i < Len(threads[t].sorted_quali)
        /\ threads' = [threads EXCEPT ![t] = FrameLoop(threads[t], dr)]
    /\ UNCHANGED <<appVars, demoVars, fbVars, calcVars, dlVars>>

\* a thread leaves its loop and returns (or raises)
thread_return ==
    /\ \E t \in Threads :
        /\ threads[t].pc = "loop"
        /\ threads[t].i = Len(threads[t].sorted_quali)
        /\ threads' = [threads EXCEPT ![t] = FrameReturn(threads[t])]
    /\ UNCHANGED <<appVars, demoVars, fbVars, calcVars, dlVars>>

\* the response of a thread has been sent; its frame is gone
thread_end ==
    /\ \E t \in Threads :
        /\ threads[t].pc \in {"done", "failed"}
        /\ threads' = [threads EXCEPT ![t] = NewFrame]
    /\ UNCHANGED <<appVars, demoVars, fbVars, calcVars, dlVars>>

NextThreads == thread_begin \/ thread_loop \/ thread_return \/ thread_end

----------------------------------------------------------------------------
(* app.py: the arithmetic of predict() on its own: the raw position as a     *)
(* function of the loop index and the summed perturbation, and accuracy and  *)
(* volatility as functions of the weights.                                   *)

\* loop indices 0..MaxIdx (places 1..MaxIdx + 1 of the grid)
MaxIdx == 11

\* values of total_change (1/10000): quarters between -4.0 and 4.0, and two
\* far outside the band
DeltaInputs == {d * 2500 : d \in -16..16} \cup {-120000, 120000}

\* weight dicts that set at most 'quali', to a value of [0, 1] in hundredths
QualiWeightInputs == {<<>>} \cup {[quali |-> w] : w \in 0..100}

CalcIdle == [op |-> "none"]

\* app.py:841  predicted_pos for index idx and total_change delta
position_call ==
    /\ calc.op = "none"
    /\ \E idx \in 0..MaxIdx, delta \in DeltaInputs :
        calc' = [op |-> "predicted_pos", idx |-> idx, delta |-> delta,
                 result |-> predicted_pos(idx, delta)]
    /\ UNCHANGED <<appVars, demoVars, fbVars, thrVars, dlVars>>

\* app.py:869-871  accuracy and volatility of two requests with weights w1, w2
stats_call ==
    /\ calc.op = "none"
    /\ \E w1, w2 \in QualiWeightInputs :
        calc' = [op |-> "stats", w1 |-> w1, w2 |-> w2,
                 accuracy1 |-> accuracy(w1), accuracy2 |-> accuracy(w2),
                 volatility1 |-> volatility(w1), volatility2 |-> volatility(w2)]
    /\ UNCHANGED <<appVars, demoVars, fbVars, thrVars, dlVars>>

calc_return ==
    /\ calc.op # "none"
    /\ calc' = CalcIdle
    /\ UNCHANGED <<appVars, demoVars, fbVars, thrVars, dlVars>>

NextCalc == position_call \/ stats_call \/ calc_return

----------------------------------------------------------------------------
(* data/download_data.py *)

\* calendars hold round numbers of 1..MaxRounds
MaxRounds == 3

\* dict d with d[k] = v
Put(d, k, v) == [x \in DOMAIN d \cup {k} |-> IF x = k THEN v ELSE d[x]]

\* what a call into fastf1, pandas or the file system does: it returns, it
\* raises an ordinary exception (an Exception), or a keyboard interrupt
\* arrives while it runs
CallOutcomes == {"ok", "Exception", "KeyboardInterrupt"}

\* what loading and extracting one session does (download_data.py:78-131):
\* it ends with results, the session has no results, it raises an ordinary
\* exception (get_session, load or the conversion of a row), or a keyboard
\* interrupt arrives
SessionOutcomes == {"results", "no_results", "Exception", "KeyboardInterrupt"}

\* the session_types argument: the default ['Q', 'R'] and a longer list
SessionTypeInputs == { <<"Q", "R">>, <<"FP1", "Q", "R">> }

\* what saving does (download_data.py:140-204): it completes, os.makedirs
\* raises, the JSON dump raises after the CSV was written, or a keyboard
\* interrupt arrives before anything was written
SaveOutcomes == {"ok", "Exception", "JsonException", "KeyboardInterrupt"}

\* Python's None, where a race_data dict may stand
NoneData == [none |-> TRUE]

\* download_data.py:76-134  one iteration of the session loop
LoadSession(race_data, session_type, out) ==
    IF out = "results"
    THEN [race_data EXCEPT !.sessions =
             Put(@, session_type,
                 [session_type |-> session_type, results |-> "rows"])]
    ELSE \* no results, or except Exception: continue
         race_data

\* download_data.py:76-134  the session loop from the first of sts on; outs
\* are the outcomes of the sessions in turn.  attempted is a history of the
\* session types the loop tried.
RECURSIVE LoadSessions(_, _, _)
LoadSessions(race_data, sts, outs) ==
    IF sts = <<>>
    THEN [race_data |-> race_data, attempted |-> <<>>, raised |-> "none"]
    ELSE IF outs[1] = "KeyboardInterrupt"
    THEN [race_data |-> race_data, attempted |-> <<sts[1]>>,
          raised |-> "KeyboardInterrupt"]
    ELSE LET rest == LoadSessions(LoadSession(race_data, sts[1], outs[1]),
                                  Tail(sts), Tail(outs))
         IN [rest EXCEPT !.attempted = <<sts[1]>> \o @]

\* download_race_data without the inner try: a session that raises ends the
\* call in the outer except clause
download_race_data_AbortsOnSessionFailure(year, round_num, session_types, ev, outs) ==
    IF ev = "KeyboardInterrupt"
    THEN [value |-> NoneData, raised |-> "KeyboardInterrupt", attempted |-> <<>>]
    ELSE IF ev = "Exception" \/ \E k \in DOMAIN outs : outs[k] = "Exception"
    THEN [value |-> NoneData, raised |-> "none", attempted |-> <<>>]
    ELSE LET r == LoadSessions([year |-> year, round |-> round_num,
                                sessions |-> <<>>, event_name |-> "event"],
                               session_types, outs)
         IN IF r.raised = "KeyboardInterrupt"
            THEN [value |-> NoneData, raised |-> "KeyboardInterrupt",
                  attempted |-> r.attempted]
            ELSE [value |-> r.race_data, raised |-> "none",
                  attempted |-> r.attempted]

\* download_data.py:49-138  download_race_data; ev is the outcome of the event
\* lookup, outs those of the sessions.  value is what the call returns
\* (None or the race_data dict), raised what it lets through.
download_race_data(year, round_num, session_types, ev, outs) ==
    IF ev = "KeyboardInterrupt"
    THEN [value |-> NoneData, raised |-> "KeyboardInterrupt", attempted |-> <<>>]
    ELSE IF ev = "Exception"
    THEN \* except Exception: return None
         [value |-> NoneData, raised |-> "none", attempted |-> <<>>]
    ELSE LET r == LoadSessions([year |-> year, round |-> round_num,
                                sessions |-> <<>>, event_name |-> "event"],
                               session_types, outs)
         IN IF r.raised = "KeyboardInterrupt"
            THEN [value |-> NoneData, raised |-> "KeyboardInterrupt",
                  attempted |-> r.attempted]
            ELSE [value |-> r.race_data, raised |-> "none",
                  attempted |-> r.attempted]

\* download_data.py:140-204  save_race_data; returns the files written and
\* what the call lets through
save_race_data(race_data, format, out) ==
    IF race_data = NoneData
    THEN [written |-> {}, raised |-> "none"]
    ELSE LET csv == IF /\ format \in {"csv", "both"}
                       /\ "Q" \in DOMAIN race_data.sessions
                    THEN {<<race_data.round, "csv">>} ELSE {}
             json == IF format \in {"json", "both"}
                     THEN {<<race_data.round, "json">>} ELSE {}
         IN CASE out = "ok" -> [written |-> csv \cup json, raised |-> "none"]
              [] out = "Exception" -> [written |-> {}, raised |-> "Exception"]
              [] out = "JsonException" ->
                    IF json = {} THEN [written |-> csv, raised |-> "none"]
                    ELSE [written |-> csv, raised |-> "Exception"]
              [] out = "KeyboardInterrupt" ->
                    [written |-> {}, raised |-> "KeyboardInterrupt"]

\* get_race_calendar (download_data.py:26-47): the rounds of the season in
\* calendar order, sprint weekends left out; [] when the schedule fails
Calendars ==
    {c \in UNION {[1..n -> 1..MaxRounds] : n \in 0..MaxRounds} :
        \A j, k \in DOMAIN c : j < k => c[j] < c[k]}

\* the max_rounds argument; 0 stands for None and for 0, which
\* `if max_rounds:` treats alike
MaxRoundsInputs == 0..MaxRounds

\* the year argument
Years == {2023, 2024}

\* all sequences of n session outcomes
OutcomeSeqs(n) == [1..n -> SessionOutcomes]

\* no download_race_data call observed
NoCall ==
    [value |-> NoneData, raised |-> "none", attempted |-> <<>>,
     session_types |-> <<>>, ev |-> "none", outs |-> <<>>]

\* the downloader before a run.  log, written and call are histories: the
\* rounds tried with what happened to each, the files written, and the last
\* direct call of download_race_data with what it met.
DlIdle ==
    [pc |-> "idle", year |-> 0, races |-> <<>>, idx |-> 0,
     success_count |-> 0, total_count |-> 0, log |-> <<>>, written |-> {},
     call |-> NoCall, raised |-> "none"]

\* the session outcomes a season run draws from
SeasonSessionOutcomes == {"results", "Exception", "KeyboardInterrupt"}

\* download_data.py:206-222  download_season_data up to the loop
season_begin ==
    /\ dl.pc = "idle"
    /\ \E year \in Years, cal \in Calendars, max_rounds \in MaxRoundsInputs :
          LET races == IF max_rounds # 0
                       THEN SubSeq(cal, 1, Min(max_rounds, Len(cal)))
                       ELSE cal
          IN dl' = IF Len(cal) = 0
                   THEN \* "No races found": return
                        [DlIdle EXCEPT !.pc = "returned", !.year = year]
                   ELSE [DlIdle EXCEPT !.pc = "loop", !.year = year,
                                       !.races = races, !.idx = 1,
                                       !.total_count = Len(races)]
    /\ UNCHANGED <<appVars, demoVars, fbVars, thrVars, calcVars>>

\* the log entry of a round: what the event lookup, the sessions and the
\* save met ("unused" where the call was not made)
LogEntry(round_num, ev, outs, sv) ==
    [round |-> round_num, ev |-> ev, outs |-> outs, sv |-> sv]

\* download_season_data counting the round before the save
SeasonRound_CountsBeforeSave(d, ev, outs, sv) ==
    LET round_num == d.races[d.idx]
        r == download_race_data(d.year, round_num, <<"Q", "R">>, ev, outs)
        s == save_race_data(r.value, "both", sv)
        logged == [d EXCEPT !.log = Append(@, LogEntry(round_num, ev, outs, sv))]
    IN IF r.raised = "KeyboardInterrupt"
       THEN [logged EXCEPT !.pc = "break"]
       ELSE IF r.value = NoneData
       THEN [logged EXCEPT !.idx = @ + 1]
       ELSE IF s.raised = "KeyboardInterrupt"
       THEN [logged EXCEPT !.pc = "break", !.success_count = @ + 1,
                           !.written = @ \cup s.written]
       ELSE [logged EXCEPT !.idx = @ + 1, !.success_count = @ + 1,
                           !.written = @ \cup s.written]

\* download_data.py:224-238  one iteration of the loop of
\* download_season_data: the download of the round, the save, and the
\* except clauses
SeasonRound(d, ev, outs, sv) ==
    LET round_num == d.races[d.idx]
        r == download_race_data(d.year, round_num, <<"Q", "R">>, ev, outs)
        s == save_race_data(r.value, "both", sv)
        logged == [d EXCEPT !.log = Append(@, LogEntry(round_num, ev, outs, sv))]
    IN IF r.raised = "KeyboardInterrupt"
       THEN \* except KeyboardInterrupt: break
            [logged EXCEPT !.pc = "break"]
       ELSE IF r.value = NoneData
       THEN \* if race_data: is false
            [logged EXCEPT !.idx = @ + 1]
       ELSE IF s.raised = "KeyboardInterrupt"
       THEN [logged EXCEPT !.pc = "break", !.written = @ \cup s.written]
       ELSE IF s.raised = "Exception"
       THEN \* except Exception: continue
            [logged EXCEPT !.idx = @ + 1, !.written = @ \cup s.written]
       ELSE [logged EXCEPT !.idx = @ + 1, !.success_count = @ + 1,
                           !.written = @ \cup s.written]

\* download_data.py:224-238  the loop body with the outcomes it meets; an
\* outcome is drawn only for a call the round gets to
season_round ==
    /\ dl.pc = "loop"
    /\ dl.idx <= Len(dl.races)
    /\ \E ev \in CallOutcomes :
       \E outs \in IF ev = "ok" THEN [1..2 -> SeasonSessionOutcomes]
                    ELSE {<<>>} :
       \E sv \in IF ev = "ok" /\ \A k \in 1..2 : outs[k] # "KeyboardInterrupt"
                  THEN SaveOutcomes ELSE {"unused"} :
          dl' = SeasonRound(dl, ev, outs, sv)
    /\ UNCHANGED <<appVars, demoVars, fbVars, thrVars, calcVars>>

\* download_data.py:240-242  the loop is over or was broken: the summary
season_return ==
    /\ \/ dl.pc = "loop" /\ dl.idx > Len(dl.races)
       \/ dl.pc = "break"
    /\ dl' = [dl EXCEPT !.pc = "returned"]
    /\ UNCHANGED <<appVars, demoVars, fbVars, thrVars, calcVars>>

\* download_data.py:49-138  a direct call of download_race_data, as main makes
\* for --race
race_call ==
    /\ dl.pc = "idle"
    /\ \E year \in Years, round_num \in 1..MaxRounds,
          session_types \in SessionTypeInputs, ev \in CallOutcomes :
       \E outs \in IF ev = "ok" THEN OutcomeSeqs(Len(session_types))
                    ELSE {<<>>} :
          LET r == download_race_data(year, round_num, session_types, ev, outs)
          IN dl' = [DlIdle EXCEPT
                      !.pc = IF r.raised = "none" THEN "race_returned"
                             ELSE "race_raised",
                      !.year = year,
                      !.raised = r.raised,
                      !.call = [value |-> r.value, raised |-> r.raised,
                                attempted |-> r.attempted,
                                session_types |-> session_types,
                                ev |-> ev, outs |-> outs]]
    /\ UNCHANGED <<appVars, demoVars, fbVars, thrVars, calcVars>>

\* download_data.py:140-204  save_race_data called with what
\* download_race_data returned
save_call ==
    /\ dl.pc = "race_returned"
    /\ \E format \in {"csv", "json", "both"}, sv \in SaveOutcomes :
          LET s == save_race_data(dl.call.value, format, sv)
          IN dl' = [dl EXCEPT !.pc = "saved", !.written = s.written,
                              !.raised = s.raised]
    /\ UNCHANGED <<appVars, demoVars, fbVars, thrVars, calcVars>>

\* the run is over; the next one starts afresh
download_end ==
    /\ dl.pc \in {"returned", "race_raised", "saved"}
    /\ dl' = DlIdle
    /\ UNCHANGED <<appVars, demoVars, fbVars, thrVars, calcVars>>

NextDownload ==
    season_begin \/ season_round \/ season_return \/ race_call \/ save_call
        \/ download_end


----------------------------------------------------------------------------
(* scripts/demo.py *)

\* DRIVER_NAMES (demo.py:50-61)
DRIVER_NAMES ==
    [c \in {"VER", "PER", "HAM", "RUS", "LEC", "SAI", "NOR", "PIA", "ALO",
            "STR", "TSU", "RIC", "HUL", "MAG", "GAS", "OCO", "BOT", "ZHO",
            "SAR", "ALB"} |->
      CASE c = "VER" -> "Max Verstappen"   [] c = "PER" -> "Sergio Perez"
        [] c = "HAM" -> "Lewis Hamilton"   [] c = "RUS" -> "George Russell"
        [] c = "LEC" -> "Charles Leclerc"  [] c = "SAI" -> "Carlos Sainz"
        [] c = "NOR" -> "Lando Norris"     [] c = "PIA" -> "Oscar Piastri"
        [] c = "ALO" -> "Fernando Alonso"  [] c = "STR" -> "Lance Stroll"
        [] c = "TSU" -> "Yuki Tsunoda"     [] c = "RIC" -> "Daniel Ricciardo"
        [] c = "HUL" -> "Nico Hulkenberg"  [] c = "MAG" -> "Kevin Magnussen"
        [] c = "GAS" -> "Pierre Gasly"     [] c = "OCO" -> "Esteban Ocon"
        [] c = "BOT" -> "Valtteri Bottas"  [] c = "ZHO" -> "Zhou Guanyu"
        [] c = "SAR" -> "Logan Sargeant"   [] c = "ALB" -> "Alexander Albon"]

\* driver_skill of fallback_prediction (demo.py:181-184), tenths
driver_skill ==
    [c \in {"VER", "HAM", "LEC", "NOR", "SAI", "RUS", "PIA", "ALO", "PER",
            "GAS"} |->
      CASE c = "VER" -> 3  [] c = "HAM" -> 2  [] c = "LEC" -> 1
        [] c = "NOR" -> 1  [] c = "SAI" -> 0  [] c = "RUS" -> 0
        [] c = "PIA" -> -1 [] c = "ALO" -> 1  [] c = "PER" -> -2
        [] c = "GAS" -> -1]

\* get_monaco_weather (demo.py:92-98), hundredths
get_monaco_weather ==
    [temperature |-> 2450, condition |-> "clear", humidity |-> 6800]

\* driver_ratings of create_features (demo.py:103-108), hundredths
driver_ratings ==
    [c \in {"VER", "HAM", "LEC", "RUS", "SAI", "NOR", "PIA", "PER", "ALO",
            "GAS", "OCO", "TSU", "HUL", "RIC", "ALB", "MAG", "BOT", "ZHO",
            "STR", "SAR"} |->
      CASE c = "VER" -> 95 [] c = "HAM" -> 90 [] c = "LEC" -> 88
        [] c = "RUS" -> 82 [] c = "SAI" -> 80 [] c = "NOR" -> 78
        [] c = "PIA" -> 76 [] c = "PER" -> 74 [] c = "ALO" -> 72
        [] c = "GAS" -> 65 [] c = "OCO" -> 63 [] c = "TSU" -> 60
        [] c = "HUL" -> 58 [] c = "RIC" -> 56 [] c = "ALB" -> 54
        [] c = "MAG" -> 52 [] c = "BOT" -> 50 [] c = "ZHO" -> 48
        [] c = "STR" -> 46 [] c = "SAR" -> 42]

\* team_performance of create_features (demo.py:111-122), hundredths
team_performance ==
    [c \in {"VER", "PER", "LEC", "SAI", "HAM", "RUS", "NOR", "PIA", "ALO",
            "STR", "TSU", "RIC", "HUL", "MAG", "GAS", "OCO", "BOT", "ZHO",
            "ALB", "SAR"} |->
      CASE c \in {"VER", "PER"} -> 92 [] c \in {"LEC", "SAI"} -> 85
        [] c \in {"HAM", "RUS"} -> 78 [] c \in {"NOR", "PIA"} -> 82
        [] c \in {"ALO", "STR"} -> 62 [] c \in {"TSU", "RIC"} -> 58
        [] c \in {"HUL", "MAG"} -> 55 [] c \in {"GAS", "OCO"} -> 60
        [] c \in {"BOT", "ZHO"} -> 48 [] c \in {"ALB", "SAR"} -> 52]

\* demo.py:100-131  create_features: the feature vector, its first entry the
\* qualifying position and the others in hundredths
create_features(qualifying_position, driver_code, weather) ==
    << qualifying_position,
       Get(driver_ratings, driver_code, 50),
       Get(team_performance, driver_code, 50),
       IF weather.condition # "rain" THEN 100 ELSE 0,
       weather.temperature,
       100 >>

\* np.random.normal(0, 1.5) (demo.py:189), tenths
NoiseDraws == {-250, -12, -3, 0, 8, 250}

\* fallback_prediction deriving the confidence from the integer change of
\* position instead of the real-valued one
fallback_prediction_IntChange(qualifying_position, driver_code, random_factor) ==
    LET skill_bonus == Get(driver_skill, driver_code, -2)
        position_change == skill_bonus + random_factor
        predicted_position ==
            Max(1, Min(20, TruncDiv(qualifying_position * 10 + position_change, 10)))
        conf == Max(4000, Min(9000,
                    7000 - Abs(predicted_position - qualifying_position) * 1000))
    IN <<predicted_position, conf>>

\* demo.py:175-200  fallback_prediction; random_factor is the normal draw.
\* Returns <<predicted_position, confidence>>, the confidence in 1/10000.
fallback_prediction(qualifying_position, driver_code, random_factor) ==
    LET base_change == 0
        skill_bonus == Get(driver_skill, driver_code, -2)
        position_change == base_change + skill_bonus + random_factor
        predicted_position ==
            Max(1, Min(20, TruncDiv(qualifying_position * 10 + position_change, 10)))
        conf == Max(4000, Min(9000, 7000 - (Abs(position_change) * 1000) \div 10))
    IN <<predicted_position, conf>>

\* what self.model.predict_proba(...)[0] can return: a probability
\* distribution over position classes (1/10000 each, summing to 1)
ProbInputs ==
    { <<10000, 0, 0>>, <<3400, 3300, 3300>>, <<500, 9000, 500>>,
      <<0, 5000, 5000>> }

\* np.max(probabilities)
NpMax(p) == CHOOSE m \in Range(p) : \A x \in Range(p) : x <= m
\* np.argmax(probabilities): the first index of the maximum, 0-based
NpArgmax(p) == (CHOOSE j \in DOMAIN p :
                    /\ p[j] = NpMax(p)
                    /\ \A k \in DOMAIN p : p[k] = NpMax(p) => j <= k) - 1

\* entrant codes of a race: in DRIVER_NAMES with a skill entry, in DRIVER_NAMES
\* without one, and in neither table
DemoCodes == {"VER", "SAR", "XXX"}

RaceInputs ==
    {q \in UNION {[1..n -> DemoCodes \X (1..MaxTime)] : n \in 0..MaxField} :
        \A j, k \in DOMAIN q : j # k => q[j][1] # q[k][1]}

\* an F1DemoPredictor right after __init__ (demo.py:64-90): self.model is the
\* unpickled classifier ("clf") or None
NewPredictor(m) ==
    [model |-> m, pc |-> "idle", qualifying_results |-> <<>>,
     sorted_drivers |-> <<>>, i |-> 0, predictions |-> <<>>,
     error |-> "none", calls |-> <<>>]

\* demo.py:133-138  predict_race begins: sort drivers by qualifying time
RaceBegin(p, q) ==
    [p EXCEPT !.pc = "loop",
              !.qualifying_results = q,
              !.sorted_drivers = StableSort(q, [j \in DOMAIN q |-> q[j][2]]),
              !.i = 0,
              !.predictions = <<>>,
              !.error = "none",
              !.calls = <<>>]

\* MakePrediction whose except branch passes the 0-based loop index to
\* fallback_prediction
MakePrediction_ExceptIndex(m, clf, qualifying_position, driver_code, noise) ==
    IF m # "None"
    THEN IF clf = <<>>
         THEN fallback_prediction(qualifying_position - 1, driver_code, noise)
                  \o <<"except">>
         ELSE <<NpArgmax(clf) + 1, NpMax(clf), "model">>
    ELSE fallback_prediction(qualifying_position, driver_code, noise)
             \o <<"fallback">>

\* demo.py:147-158  the prediction of one entrant. clf is what the classifier
\* does when called: "raise" or a probability distribution; noise is the
\* draw fallback_prediction makes when it runs.
\* Returns <<predicted_position, confidence, path>>.
MakePrediction(m, clf, qualifying_position, driver_code, noise) ==
    IF m # "None"
    THEN IF clf = <<>>
         THEN \* except Exception: fall back
              fallback_prediction(qualifying_position, driver_code, noise)
                  \o <<"except">>
         ELSE <<NpArgmax(clf) + 1, NpMax(clf), "model">>
    ELSE fallback_prediction(qualifying_position, driver_code, noise)
             \o <<"fallback">>

\* RaceStep discarding the classifier once a call to it has raised
RaceStep_DropsModelOnError(p, clf, noise) ==
    LET driver_code == p.sorted_drivers[p.i + 1][1]
        quali_time == p.sorted_drivers[p.i + 1][2]
        qualifying_position == p.i + 1
        features == create_features(qualifying_position, driver_code,
                                    get_monaco_weather)
        r == MakePrediction(p.model, clf, qualifying_position, driver_code, noise)
        call == [driver_code |-> driver_code, features |-> features,
                 path |-> r[3],
                 probabilities |-> IF r[3] = "model" THEN clf ELSE <<>>,
                 noise |-> IF r[3] = "model" THEN 0 ELSE noise]
        m == IF r[3] = "except" THEN "None" ELSE p.model
    IN IF driver_code \notin DOMAIN DRIVER_NAMES
       THEN [p EXCEPT !.pc = "raised", !.error = "KeyError", !.model = m,
                      !.calls = Append(@, call)]
       ELSE [p EXCEPT !.i = @ + 1,
                      !.model = m,
                      !.calls = Append(@, call),
                      !.predictions = Append(@,
                          [driver_code |-> driver_code,
                           driver_name |-> DRIVER_NAMES[driver_code],
                           qualifying_position |-> qualifying_position,
                           qualifying_time |-> quali_time,
                           predicted_position |-> r[1],
                           confidence |-> r[2],
                           position_change |-> r[1] - qualifying_position])]

\* demo.py:140-168  one iteration of the for loop of predict_race.
\* calls is a history of what each iteration met: the feature vector, the
\* path taken, the distribution the classifier returned (<<>> when it was
\* not called or raised) and the noise fallback_prediction drew (0 when it
\* did not run).
RaceStep(p, clf, noise) ==
    LET driver_code == p.sorted_drivers[p.i + 1][1]
        quali_time == p.sorted_drivers[p.i + 1][2]
        qualifying_position == p.i + 1
        weather == get_monaco_weather   \* what main passes (demo.py:329, 337)
        features == create_features(qualifying_position, driver_code, weather)
        r == MakePrediction(p.model, clf, qualifying_position, driver_code, noise)
        call == [driver_code |-> driver_code, features |-> features,
                 path |-> r[3],
                 probabilities |-> IF r[3] = "model" THEN clf ELSE <<>>,
                 noise |-> IF r[3] = "model" THEN 0 ELSE noise]
    IN IF driver_code \notin DOMAIN DRIVER_NAMES
       THEN \* DRIVER_NAMES[driver_code] raises KeyError (demo.py:162)
            [p EXCEPT !.pc = "raised", !.error = "KeyError",
                      !.calls = Append(@, call)]
       ELSE [p EXCEPT !.i = @ + 1,
                      !.calls = Append(@, call),
                      !.predictions = Append(@,
                          [driver_code |-> driver_code,
                           driver_name |-> DRIVER_NAMES[driver_code],
                           qualifying_position |-> qualifying_position,
                           qualifying_time |-> quali_time,
                           predicted_position |-> r[1],
                           confidence |-> r[2],
                           position_change |-> r[1] - qualifying_position])]

\* demo.py:170-173  sort by predicted position and return
RaceReturn(p) ==
    [p EXCEPT !.pc = "done",
              !.predictions = StableSort(@,
                  [j \in DOMAIN @ |-> @[j].predicted_position])]

\* the call is over (returned or raised); the predictor object lives on
RaceEnd(p) == NewPredictor(p.model)

\* the classifier's behaviour on one call; <<>> stands for raising
ClfOutcomes == {<<>>} \cup ProbInputs

InLoop(p) == p.pc = "loop" /\ p.i < Len(p.sorted_drivers)
AtReturn(p) == p.pc = "loop" /\ p.i = Len(p.sorted_drivers)
Finished(p) == p.pc \in {"done", "raised"}

predict_race_begin ==
    /\ predictor.pc = "idle"
    /\ \E q \in RaceInputs : predictor' = RaceBegin(predictor, q)
    /\ UNCHANGED <<predictor2, appVars, fbVars, thrVars, calcVars, dlVars>>

predict_race_loop ==
    /\ InLoop(predictor)
    /\ \E clf \in ClfOutcomes, noise \in NoiseDraws :
        predictor' = RaceStep(predictor, clf, noise)
    /\ UNCHANGED <<predictor2, appVars, fbVars, thrVars, calcVars, dlVars>>

predict_race_return ==
    /\ AtReturn(predictor)
    /\ predictor' = RaceReturn(predictor)
    /\ UNCHANGED <<predictor2, appVars, fbVars, thrVars, calcVars, dlVars>>

predict_race_end ==
    /\ Finished(predictor)
    /\ predictor' = RaceEnd(predictor)
    /\ UNCHANGED <<predictor2, appVars, fbVars, thrVars, calcVars, dlVars>>

NextDemo ==
    \/ predict_race_begin
    \/ predict_race_loop
    \/ predict_race_return
    \/ predict_race_end

----------------------------------------------------------------------------
(* Paired runs of predict_race: predictor has no classifier loaded,         *)
(* predictor2 has a classifier that raises on every call; both get the same *)
(* qualifying input and, iteration by iteration, the same noise draw.       *)

pair_begin ==
    /\ predictor.pc = "idle" /\ predictor2.pc = "idle"
    /\ \E q \in RaceInputs :
        /\ predictor' = RaceBegin(predictor, q)
        /\ predictor2' = RaceBegin(predictor2, q)
    /\ UNCHANGED <<appVars, fbVars, thrVars, calcVars, dlVars>>

pair_loop ==
    /\ InLoop(predictor) \/ InLoop(predictor2)
    /\ \E noise \in NoiseDraws :
        /\ predictor' = IF InLoop(predictor)
                        THEN RaceStep(predictor, <<>>, noise) ELSE predictor
        /\ predictor2' = IF InLoop(predictor2)
                         THEN RaceStep(predictor2, <<>>, noise) ELSE predictor2
    /\ UNCHANGED <<appVars, fbVars, thrVars, calcVars, dlVars>>

pair_return ==
    /\ ~InLoop(predictor) /\ ~InLoop(predictor2)
    /\ AtReturn(predictor) \/ AtReturn(predictor2)
    /\ predictor' = IF AtReturn(predictor) THEN RaceReturn(predictor) ELSE predictor
    /\ predictor2' = IF AtReturn(predictor2) THEN RaceReturn(predictor2) ELSE predictor2
    /\ UNCHANGED <<appVars, fbVars, thrVars, calcVars, dlVars>>

pair_end ==
    /\ Finished(predictor) /\ Finished(predictor2)
    /\ predictor' = RaceEnd(predictor)
    /\ predictor2' = RaceEnd(predictor2)
    /\ UNCHANGED <<appVars, fbVars, thrVars, calcVars, dlVars>>

NextPair == pair_begin \/ pair_loop \/ pair_return \/ pair_end

----------------------------------------------------------------------------
(* fallback_prediction as a function of its arguments *)

\* qualifying positions 1..MaxQualiPos
MaxQualiPos == 20

FbCodes == DOMAIN driver_skill \cup {"SAR", "XXX"}

FbIdle ==
    [called |-> FALSE, qualifying_position |-> 0, driver_code |-> "",
     random_factor |-> 0, predicted_position |-> 0, confidence |-> 0]

fallback_call ==
    /\ ~fb.called
    /\ \E qp \in 1..MaxQualiPos, c \in FbCodes, n \in NoiseDraws :
        fb' = [called |-> TRUE, qualifying_position |-> qp, driver_code |-> c,
               random_factor |-> n,
               predicted_position |-> fallback_prediction(qp, c, n)[1],
               confidence |-> fallback_prediction(qp, c, n)[2]]
    /\ UNCHANGED <<appVars, demoVars, thrVars, calcVars, dlVars>>

fallback_return ==
    /\ fb.called
    /\ fb' = FbIdle
    /\ UNCHANGED <<appVars, demoVars, thrVars, calcVars, dlVars>>

NextFallback == fallback_call \/ fallback_return

----------------------------------------------------------------------------
(* Specifications *)

AppIdle ==
    /\ DRIVERS = DRIVERS_TABLE
    /\ pc = "idle"
    /\ data = <<>>
    /\ qualifying = <<>>
    /\ weights = <<>>
    /\ sorted_quali = <<>>
    /\ i = 0
    /\ predictions = <<>>
    /\ total_confidence = 0
    /\ response = NoResponse
    /\ error = "none"

\* /api/predict of app.py: the server after start-up
Init ==
    /\ AppIdle
    /\ predictor = NewPredictor("None")
    /\ predictor2 = NewPredictor("None")
    /\ fb = FbIdle
    /\ threads = [t \in Threads |-> NewFrame]
    /\ calc = CalcIdle
    /\ dl = DlIdle
Next == NextApp
Spec == Init /\ [][Next]_vars

\* predict_race of demo.py: a predictor after construction, its classifier
\* loaded or not
InitDemo ==
    /\ AppIdle
    /\ predictor \in {NewPredictor("None"), NewPredictor("clf")}
    /\ predictor2 = NewPredictor("None")
    /\ fb = FbIdle
    /\ threads = [t \in Threads |-> NewFrame]
    /\ calc = CalcIdle
    /\ dl = DlIdle
SpecDemo == InitDemo /\ [][NextDemo]_vars

\* paired predict_race runs
InitPair ==
    /\ AppIdle
    /\ predictor = NewPredictor("None")
    /\ predictor2 = NewPredictor("clf")
    /\ fb = FbIdle
    /\ threads = [t \in Threads |-> NewFrame]
    /\ calc = CalcIdle
    /\ dl = DlIdle
SpecPair == InitPair /\ [][NextPair]_vars

\* fallback_prediction of demo.py
InitFallback ==
    /\ AppIdle
    /\ predictor = NewPredictor("None")
    /\ predictor2 = NewPredictor("None")
    /\ fb = FbIdle
    /\ threads = [t \in Threads |-> NewFrame]
    /\ calc = CalcIdle
    /\ dl = DlIdle
SpecFallback == InitFallback /\ [][NextFallback]_vars

\* /api/predict of app.py served by two threads
InitThreads ==
    /\ AppIdle
    /\ predictor = NewPredictor("None")
    /\ predictor2 = NewPredictor("None")
    /\ fb = FbIdle
    /\ threads = [t \in Threads |-> NewFrame]
    /\ calc = CalcIdle
    /\ dl = DlIdle
SpecThreads == InitThreads /\ [][NextThreads]_vars

\* the arithmetic of predict()
InitCalc ==
    /\ AppIdle
    /\ predictor = NewPredictor("None")
    /\ predictor2 = NewPredictor("None")
    /\ fb = FbIdle
    /\ threads = [t \in Threads |-> NewFrame]
    /\ calc = CalcIdle
    /\ dl = DlIdle
SpecCalc == InitCalc /\ [][NextCalc]_vars

\* /api/predict requests and evaluations of its arithmetic, one at a time
InitStats ==
    /\ AppIdle
    /\ predictor = NewPredictor("None")
    /\ predictor2 = NewPredictor("None")
    /\ fb = FbIdle
    /\ threads = [t \in Threads |-> NewFrame]
    /\ calc = CalcIdle
    /\ dl = DlIdle
NextStats ==
    \/ (calc.op = "none" /\ NextApp)
    \/ (pc = "idle" /\ NextCalc)
SpecStats == InitStats /\ [][NextStats]_vars

\* runs of the downloader: a season, or one race and its save
InitDownload ==
    /\ AppIdle
    /\ predictor = NewPredictor("None")
    /\ predictor2 = NewPredictor("None")
    /\ fb = FbIdle
    /\ threads = [t \in Threads |-> NewFrame]
    /\ calc = CalcIdle
    /\ dl = DlIdle
SpecDownload == InitDownload /\ [][NextDownload]_vars

\* both backends in one process: a /api/predict request or a predict_race
\* call, one at a time
InitBackends ==
    /\ AppIdle
    /\ predictor = NewPredictor("clf")
    /\ predictor2 = NewPredictor("None")
    /\ fb = FbIdle
    /\ threads = [t \in Threads |-> NewFrame]
    /\ calc = CalcIdle
    /\ dl = DlIdle
NextBackends ==
    \/ (predictor.pc = "idle" /\ NextApp)
    \/ (pc = "idle" /\ NextDemo)
SpecBackends == InitBackends /\ [][NextBackends]_vars

----------------------------------------------------------------------------
(* Properties *)

\* the handler has finished, by returning or by raising
Handled == pc \in {"done", "failed"}

\* the qualifying keys that are codes of DRIVERS
MatchedCodes == {c \in {qualifying[j][1] : j \in DOMAIN qualifying} :
                    c \in DOMAIN DRIVERS}
UnmatchedCodes == {c \in {qualifying[j][1] : j \in DOMAIN qualifying} :
                    c \notin DOMAIN DRIVERS}

RecordsOf(c) == {k \in DOMAIN response.predictions :
                    /\ response.predictions[k].name = DRIVERS[c].name
                    /\ response.predictions[k].number = DRIVERS[c].number}

\* C1: a request that matches N >= 1 known entrants returns N records whose
\* predicted positions are exactly 1..N, the k-th record carrying position k,
\* whatever the random draws were.
C1_PositionsArePermutation ==
    (Handled /\ Cardinality(MatchedCodes) >= 1) =>
        /\ pc = "done"
        /\ Len(response.predictions) = Cardinality(MatchedCodes)
        /\ \A k \in DOMAIN response.predictions :
              response.predictions[k].position = k

\* C1 witness: two matched entrants returned, the better qualified one second
C1_Witness ==
    /\ pc = "done"
    /\ Len(response.predictions) = 2
    /\ response.predictions[1].qualifying > response.predictions[2].qualifying
    /\ response.predictions[1].position = 1
    /\ response.predictions[2].position = 2

\* C2: when no entrant is matched (empty or missing qualifying input) the
\* request does not fail: it returns predictions = [] and avgConfidence = 0.
C2_EmptyInputHandled ==
    (Handled /\ MatchedCodes = {}) =>
        /\ pc = "done"
        /\ error = "none"
        /\ response.predictions = <<>>
        /\ response.avgConfidence = 0

\* C3: the qualifying positions of the returned records form a permutation of
\* 1..N, N the number of returned records, also when the input holds unknown
\* codes.
C3_QualifyingIsPermutation ==
    pc = "done" =>
        {response.predictions[k].qualifying : k \in DOMAIN response.predictions}
            = 1..Len(response.predictions)

\* C4: with at least one known code in the input, the request returns exactly
\* one record for each known qualifying key and none for an unknown key, and
\* unknown keys raise no error.
C4_OneRecordPerKnownCode ==
    (Handled /\ MatchedCodes # {}) =>
        /\ pc = "done"
        /\ error = "none"
        /\ \A c \in MatchedCodes : Cardinality(RecordsOf(c)) = 1
        /\ \A k \in DOMAIN response.predictions :
              \E c \in MatchedCodes : k \in RecordsOf(c)

\* C4 witness: a returned request whose input held an unknown code that
\* qualified ahead of two known ones
C4_Witness ==
    /\ pc = "done"
    /\ UnmatchedCodes # {}
    /\ Cardinality(MatchedCodes) = 2
    /\ sorted_quali[1][1] \notin DOMAIN DRIVERS
    /\ Len(response.predictions) = 2

\* C5: the records predict_race returns are rank-normalized: predicted
\* positions are exactly 1..N in order, and position_change = predicted -
\* qualifying position.
C5_RaceNormalized ==
    predictor.pc = "done" =>
        \A k \in DOMAIN predictor.predictions :
            /\ predictor.predictions[k].predicted_position = k
            /\ predictor.predictions[k].position_change =
                  predictor.predictions[k].predicted_position
                  - predictor.predictions[k].qualifying_position

\* the record predict_race appended for the entrant of iteration k
RecordOfCall(p, k) ==
    CHOOSE r \in Range(p.predictions) : r.driver_code = p.calls[k].driver_code

\* C6: with a classifier loaded, whatever subset of the calls raises,
\* predict_race returns one record per entrant; an entrant whose call raised
\* has the fallback heuristic's position and confidence, every other entrant
\* the classifier's.
C6_ClassifierFailureContained ==
    (Finished(predictor) /\ predictor.model # "None") =>
        /\ predictor.pc = "done"
        /\ predictor.error = "none"
        /\ Len(predictor.predictions) = Len(predictor.qualifying_results)
        /\ \A k \in DOMAIN predictor.calls :
              LET c == predictor.calls[k]
                  r == RecordOfCall(predictor, k)
              IN IF c.path = "model"
                 THEN /\ r.predicted_position = NpArgmax(c.probabilities) + 1
                      /\ r.confidence = NpMax(c.probabilities)
                 ELSE <<r.predicted_position, r.confidence>> =
                        fallback_prediction(k, c.driver_code, c.noise)

\* C7: for the same qualifying input and the same noise draws, predict_race
\* with a classifier raising on every call gives the same outcome and the
\* same records, in the same order, as predict_race with no classifier.
C7_RaisingClassifierEqualsNoClassifier ==
    /\ predictor2.pc = predictor.pc
    /\ predictor2.error = predictor.error
    /\ predictor2.predictions = predictor.predictions

\* C7 witness: both runs returned two records, one through the except branch
\* of every call, the other without a classifier
C7_Witness ==
    /\ predictor.pc = "done" /\ predictor2.pc = "done"
    /\ predictor.model = "None" /\ predictor2.model # "None"
    /\ Len(predictor2.predictions) = 2
    /\ \A k \in DOMAIN predictor2.calls : predictor2.calls[k].path = "except"
    /\ \A k \in DOMAIN predictor.calls : predictor.calls[k].path = "fallback"
    /\ predictor.predictions[1].qualifying_position = 2

\* C8: every record of every backend has a confidence within [0.4, 0.95], the
\* records of predict_race's classifier path included.
C8_ConfidenceInRange ==
    /\ \A k \in DOMAIN predictions :
          predictions[k].confidence >= 4000 /\ predictions[k].confidence <= 9500
    /\ \A k \in DOMAIN predictor.predictions :
          /\ predictor.predictions[k].confidence >= 4000
          /\ predictor.predictions[k].confidence <= 9500

\* C9: for every weight assignment (missing, negative, above 1) the request
\* completes without error and every returned confidence is in [0.4, 0.95].
C9_AnyWeightsComplete ==
    Handled =>
        /\ pc = "done"
        /\ error = "none"
        /\ \A k \in DOMAIN response.predictions :
              /\ response.predictions[k].confidence >= 4000
              /\ response.predictions[k].confidence <= 9500

\* C10: fallback_prediction's confidence is 0.7 - |position change| / 10
\* clamped into [0.4, 0.9], the position change being skill bonus + noise
\* (real-valued), for every qualifying position, code and noise.
C10_FallbackConfidence ==
    fb.called =>
        LET change == Get(driver_skill, fb.driver_code, -2) + fb.random_factor
            raw == 7000 - 100 * Abs(change)
        IN /\ fb.confidence = (IF raw < 4000 THEN 4000
                               ELSE IF raw > 9000 THEN 9000 ELSE raw)
           /\ fb.confidence >= 4000
           /\ fb.confidence <= 9000

\* C10 witness: a call whose real-valued change (-0.2 + 0.8 = 0.6) leaves the
\* position where it was and still lowers the confidence to 0.64
C10_Witness ==
    /\ fb.called
    /\ fb.driver_code = "XXX"
    /\ fb.random_factor = 8
    /\ fb.predicted_position = fb.qualifying_position
    /\ fb.confidence = 6400

\* the code of DRIVERS a returned record stands for
CodeOf(r) == CHOOSE c \in DOMAIN DRIVERS_TABLE : DRIVERS_TABLE[c].name = r.name

\* the place of code c in the input q
InputIndex(q, c) == CHOOSE j \in DOMAIN q : q[j][1] = c

\* entrant c1 has a strictly smaller time than c2, or the same time and an
\* earlier place in the input q
Ahead(q, c1, c2) ==
    LET j1 == InputIndex(q, c1)
        j2 == InputIndex(q, c2)
    IN \/ q[j1][2] < q[j2][2]
       \/ (q[j1][2] = q[j2][2] /\ j1 < j2)

\* C11: qualifying positions are the stable ascending-time ranking of the
\* input, in /api/predict and in predict_race: an entrant with a strictly
\* smaller time, or with an equal time and an earlier place in the input,
\* has the lower qualifying position.
C11_QualifyingIsStableRanking ==
    /\ \A a, b \in DOMAIN predictions :
          Ahead(qualifying, CodeOf(predictions[a]), CodeOf(predictions[b]))
              => predictions[a].qualifying < predictions[b].qualifying
    /\ \A a, b \in DOMAIN response.predictions :
          Ahead(qualifying, CodeOf(response.predictions[a]),
                CodeOf(response.predictions[b]))
              => response.predictions[a].qualifying
                    < response.predictions[b].qualifying
    /\ \A a, b \in DOMAIN predictor.predictions :
          Ahead(predictor.qualifying_results,
                predictor.predictions[a].driver_code,
                predictor.predictions[b].driver_code)
              => predictor.predictions[a].qualifying_position
                    < predictor.predictions[b].qualifying_position

\* C11 witness: a returned request whose input lists a slower entrant first
\* and then two known entrants with exactly equal times
C11_Witness ==
    /\ pc = "done"
    /\ Len(qualifying) = 3
    /\ qualifying[1][2] > qualifying[2][2]
    /\ qualifying[2][2] = qualifying[3][2]
    /\ Len(response.predictions) = 2
    /\ \E a, b \in DOMAIN response.predictions :
          /\ CodeOf(response.predictions[a]) = qualifying[2][1]
          /\ CodeOf(response.predictions[b]) = qualifying[3][1]
          /\ response.predictions[a].qualifying = 1
          /\ response.predictions[b].qualifying = 2

\* C12: two /api/predict requests with the same qualifying input report the
\* same entrants with the same qualifying position each, whatever their
\* weights and whatever the random draws of either.
C12_QualifyingIndependentOfWeights ==
    \A t, u \in Threads :
        (/\ threads[t].pc = "done"
         /\ threads[u].pc = "done"
         /\ threads[t].qualifying = threads[u].qualifying) =>
            \A a \in DOMAIN threads[t].response.predictions :
                \E b \in DOMAIN threads[u].response.predictions :
                    /\ threads[u].response.predictions[b].name
                          = threads[t].response.predictions[a].name
                    /\ threads[u].response.predictions[b].qualifying
                          = threads[t].response.predictions[a].qualifying

\* C12 witness: two returned requests with the same two-entrant qualifying
\* input, different weights and different draws, whose predicted orders differ
C12_Witness ==
    /\ threads[1].pc = "done" /\ threads[2].pc = "done"
    /\ threads[1].qualifying = threads[2].qualifying
    /\ threads[1].weights # threads[2].weights
    /\ threads[1].draws # threads[2].draws
    /\ Len(threads[1].response.predictions) = 2
    /\ threads[1].response.predictions[1].name
          # threads[2].response.predictions[1].name

\* the two weight assignments of the qualifying-weight comparison
QualiOne == [quali |-> 100, pace |-> 0, tire |-> 0, weather |-> 0, strategy |-> 0]
QualiZero == [quali |-> 0, pace |-> 0, tire |-> 0, weather |-> 0, strategy |-> 0]

\* C13: the qualifying weight influences the predicted order: at every place
\* of the grid, the raw predicted positions an entrant can receive with
\* quali = 1.0 (other weights 0) are fewer than, and among, those it can
\* receive with quali = 0.0 (other weights 0).
C13_QualiWeightNarrowsDisplacement ==
    (pc = "loop" /\ weights = QualiOne) =>
        \A n \in 0..(Len(sorted_quali) - 1) :
            /\ PositionTable[QualiOne, n] \subseteq PositionTable[QualiZero, n]
            /\ PositionTable[QualiOne, n] # PositionTable[QualiZero, n]

\* a request body without key k
Without(d, k) == [x \in DOMAIN d \ {k} |-> d[x]]

\* weight dict w with every omitted name passed at its baseline
Fill(w) == [k \in DOMAIN BaselineWeights |-> Get(w, k, BaselineWeights[k])]

\* the call of thread t is over, by returning or by raising
ThreadHandled(t) == threads[t].pc \in {"done", "failed"}

\* the two calls ended the same way with the same response body
SameOutcome(t, u) ==
    /\ threads[t].pc = threads[u].pc
    /\ threads[t].error = threads[u].error
    /\ threads[t].response = threads[u].response

\* request u is request t with the omitted weight names (or the omitted
\* 'weights') passed explicitly at the baseline, and drew what t drew
BaselineExplicit(t, u) ==
    /\ ThreadHandled(t) /\ ThreadHandled(u)
    /\ Without(threads[t].data, "weights") = Without(threads[u].data, "weights")
    /\ threads[t].weights # threads[u].weights
    /\ "weights" \in DOMAIN threads[u].data
    /\ threads[u].data.weights = Fill(threads[t].weights)
    /\ threads[t].draws = threads[u].draws

\* C14: a weight name missing from the request stands for its baseline
\* (quali 0.7, pace 0.6, tire 0.45, weather 0.3, strategy 0.5): with the same
\* qualifying input and the same draws, a request omitting weights ends like
\* the request passing the baseline explicitly, with the same response; and
\* at every place and for every draw both compute the same raw position and
\* confidence.
C14_MissingWeightIsBaseline ==
    \A t, u \in Threads :
        BaselineExplicit(t, u) =>
            /\ SameOutcome(t, u)
            /\ \A n \in 0..(MaxField - 1), g \in GaussDraws,
                  up \in UniformDraws(-100, 100), ut \in UniformDraws(-50, 50),
                  uw \in UniformDraws(-30, 30), us \in UniformDraws(-80, 80) :
                  predicted_pos(n, total_change(threads[t].weights, g, up, ut, uw, us))
                    = predicted_pos(n, total_change(threads[u].weights, g, up, ut, uw, us))
            /\ \A uc \in UniformDraws(0, 20) :
                  confidence(threads[t].weights, uc) = confidence(threads[u].weights, uc)

\* C14 witness: a request without 'weights' and one passing the whole
\* baseline, same two-entrant input and same draws, both returned
C14_Witness ==
    /\ BaselineExplicit(1, 2)
    /\ "weights" \notin DOMAIN threads[1].data
    /\ threads[2].data.weights = BaselineWeights
    /\ threads[1].pc = "done"
    /\ Len(threads[1].response.predictions) = 2
    /\ threads[1].draws[1] # threads[1].draws[2]

\* C15: rank normalization is idempotent: applied to the normalized records
\* of a response it returns them unchanged, with the same order, positions
\* and deltas.
C15_RenumberIdempotent ==
    pc = "done" =>
        /\ Renumber(response.predictions) = response.predictions
        /\ Renumber(predictions) = predictions

\* C15 witness: a response of two records whose normalization moved both
\* away from their qualifying positions
C15_Witness ==
    /\ pc = "done"
    /\ Len(response.predictions) = 2
    /\ response.predictions[1].change < 0
    /\ response.predictions[2].change > 0
    /\ Renumber(response.predictions) = response.predictions

\* C16: after normalization every returned record has change = position -
\* qualifying, position being the final (renumbered) one: the index of the
\* record in the response, plus one.
C16_ChangeIsFinalDelta ==
    pc = "done" =>
        \A k \in DOMAIN response.predictions :
            /\ response.predictions[k].position = k
            /\ response.predictions[k].change =
                  response.predictions[k].position
                  - response.predictions[k].qualifying
            /\ response.predictions[k].change =
                  k - response.predictions[k].qualifying

\* C16 witness: a response of two records in which an entrant that
\* qualified third (behind an unknown code) is first with change -2
C16_Witness ==
    /\ pc = "done"
    /\ Len(response.predictions) = 2
    /\ response.predictions[1].qualifying = 3
    /\ response.predictions[1].position = 1
    /\ response.predictions[1].change = -2
    /\ response.predictions[2].change = 0

\* the codes of DRIVERS among the qualifying keys of thread t's request
ThreadMatched(t) ==
    {c \in {threads[t].qualifying[j][1] : j \in DOMAIN threads[t].qualifying} :
        c \in DOMAIN DRIVERS}

\* the response of thread t holds one record for each of its own matched
\* entrants and no other, with positions 1..N in order
OwnResponse(t) ==
    LET recs == threads[t].response.predictions IN
    /\ Len(recs) = Cardinality(ThreadMatched(t))
    /\ \A k \in DOMAIN recs :
          /\ CodeOf(recs[k]) \in ThreadMatched(t)
          /\ recs[k].position = k
    /\ \A c \in ThreadMatched(t) : \E k \in DOMAIN recs : CodeOf(recs[k]) = c

\* a step that changes the frame of one thread leaves the frame of the other
\* and the module-level DRIVERS as they were
StepIsLocal ==
    /\ DRIVERS' = DRIVERS
    /\ \A t \in Threads :
          threads'[t] # threads[t] =>
              \A u \in Threads \ {t} : threads'[u] = threads[u]

\* C17: concurrent /api/predict invocations do not interfere: in every
\* interleaving of two requests, each response holds records only for its
\* own request's entrants with positions 1..N for its own N, and no step of
\* one invocation writes state of the other or the shared table.
C17_ConcurrentInvocationsIndependent ==
    /\ [](\A t \in Threads : threads[t].pc = "done" => OwnResponse(t))
    /\ [][StepIsLocal]_vars

\* C17 witness: thread 1 is between the two iterations of its loop while
\* thread 2, which began later or earlier, has returned another request
C17_Witness ==
    /\ threads[1].pc = "loop"
    /\ threads[1].i = 1
    /\ Len(threads[1].sorted_quali) = 2
    /\ Len(threads[1].predictions) = 1
    /\ threads[2].pc = "done"
    /\ threads[2].qualifying # threads[1].qualifying
    /\ ThreadMatched(2) # ThreadMatched(1)
    /\ OwnResponse(2)

\* requests t and u differ in 'track' only (present or absent, or two
\* values) and drew the same
DifferInTrack(t, u) ==
    /\ ThreadHandled(t) /\ ThreadHandled(u)
    /\ threads[t].data # threads[u].data
    /\ Without(threads[t].data, "track") = Without(threads[u].data, "track")
    /\ threads[t].draws = threads[u].draws

\* C18: 'track' has no effect on the result: two requests that differ only
\* in 'track' end the same way with the same response, given the same draws.
C18_TrackIgnored ==
    \A t, u \in Threads : DifferInTrack(t, u) => SameOutcome(t, u)

\* C18 witness: a request without 'track' and one for Monaco, otherwise
\* equal, with weights of their own, two entrants and equal draws, returned
C18_Witness ==
    /\ DifferInTrack(1, 2)
    /\ "track" \notin DOMAIN threads[1].data
    /\ threads[2].data.track = "Monaco - Street Circuit"
    /\ threads[1].weights = [quali |-> 300, pace |-> 200]
    /\ threads[1].pc = "done"
    /\ Len(threads[1].response.predictions) = 2
    /\ threads[1].draws[1] # threads[1].draws[2]

\* the entrants of predict_race's input whose code is in no reference table
UnknownEntrants(p) ==
    {j \in DOMAIN p.sorted_drivers :
        p.sorted_drivers[j][1] \notin DOMAIN DRIVER_NAMES}

\* C19: predict_race completes for an entrant whose code is absent from the
\* reference tables: no error is raised, the entrant has a record, its
\* feature vector holds the default ratings 0.5 and, when the fallback
\* heuristic made its prediction, the skill bonus was -0.2.
C19_UnknownCodeHandled ==
    (Finished(predictor) /\ UnknownEntrants(predictor) # {}) =>
        /\ predictor.pc = "done"
        /\ predictor.error = "none"
        /\ \A j \in UnknownEntrants(predictor) :
              /\ j \in DOMAIN predictor.calls
              /\ predictor.calls[j].features[2] = 50
              /\ predictor.calls[j].features[3] = 50
              /\ \E r \in Range(predictor.predictions) :
                    /\ r.driver_code = predictor.sorted_drivers[j][1]
                    /\ r.qualifying_position = j
                    /\ predictor.calls[j].path # "model" =>
                          r.predicted_position =
                              Max(1, Min(20, TruncDiv(j * 10 - 2
                                             + predictor.calls[j].noise, 10)))

\* record r carries the name, team and number DRIVERS had at process start
\* for the code at place r.qualifying of the sorted input
FromTable(r) ==
    LET c == sorted_quali[r.qualifying][1] IN
    /\ c \in DOMAIN DRIVERS_TABLE
    /\ r.name = DRIVERS_TABLE[c].name
    /\ r.team = DRIVERS_TABLE[c].team
    /\ r.number = DRIVERS_TABLE[c].number

\* C20: DRIVERS is never modified: after any sequence of /api/predict
\* requests it holds the codes, names, teams and numbers of process start,
\* and every record built or returned carries the name, team and number of
\* its code in DRIVERS.
C20_DriversReadOnly ==
    /\ DRIVERS = DRIVERS_TABLE
    /\ \A k \in DOMAIN predictions : FromTable(predictions[k])
    /\ \A k \in DOMAIN response.predictions : FromTable(response.predictions[k])

\* C20 witness: a returned request with Hamilton (44, Ferrari) ahead of
\* Verstappen (1, Red Bull), the table as at start
C20_Witness ==
    /\ pc = "done"
    /\ DRIVERS = DRIVERS_TABLE
    /\ Len(response.predictions) = 2
    /\ response.predictions[1].name = "Lewis Hamilton"
    /\ response.predictions[1].team = "Ferrari"
    /\ response.predictions[1].number = 44
    /\ response.predictions[2].name = "Max Verstappen"
    /\ response.predictions[2].number = 1

\* x clamped into [1, 10]
ClampTop10(x) == IF x < 1 THEN 1 ELSE IF x > 10 THEN 10 ELSE x

\* the integer part of s / 10000, rounding toward zero: the integer t with
\* t <= s/10000 < t + 1 for s >= 0 and t - 1 < s/10000 <= t for s < 0
TowardZero(s) ==
    CHOOSE t \in -200..200 :
        IF s >= 0 THEN t * 10000 <= s /\ s < (t + 1) * 10000
        ELSE (t - 1) * 10000 < s /\ s <= t * 10000

\* C21 as claimed: the raw predicted position at index idx with summed
\* perturbation delta is idx + 1 + round_toward_zero(delta), clamped into
\* [1, 10], for every idx and delta.
C21_RawPositionTruncatesDelta ==
    calc.op = "predicted_pos" =>
        calc.result = ClampTop10(calc.idx + 1 + TowardZero(calc.delta))

\* C21 amended: the raw predicted position at index idx with summed
\* perturbation delta is round_toward_zero(idx + 1 + delta), clamped into
\* [1, 10], for every idx and delta.
C21_RawPositionTruncatesSum ==
    calc.op = "predicted_pos" =>
        calc.result = ClampTop10(TowardZero((calc.idx + 1) * 10000 + calc.delta))

\* C21 witness: place 4 with delta -0.5 gives int(3.5) = 3, not 4 + 0
C21_Witness ==
    /\ calc.op = "predicted_pos"
    /\ calc.idx = 3
    /\ calc.delta = -5000
    /\ calc.result = 3

\* the final position of the entrant of raw record r in the response of
\* thread t
FinalPosition(t, r) ==
    LET recs == threads[t].response.predictions
    IN recs[CHOOSE k \in DOMAIN recs : recs[k].name = r.name].position

\* C22: normalization orders the records by raw predicted position and,
\* among records with the same raw position, by qualifying position: of two
\* entrants, the one with the lower raw position, or with the same raw
\* position and the better qualifying position, gets the lower final
\* position.
C22_CollisionsByQualifying ==
    \A t \in Threads :
        threads[t].pc = "done" =>
            \A a, b \in DOMAIN threads[t].raw :
                LET ra == threads[t].raw[a]
                    rb == threads[t].raw[b]
                IN (\/ ra.position < rb.position
                    \/ (ra.position = rb.position /\ ra.qualifying < rb.qualifying))
                   => FinalPosition(t, ra) < FinalPosition(t, rb)

\* C22 witness: two entrants with the same raw position, returned in
\* qualifying order
C22_Witness ==
    /\ threads[1].pc = "done"
    /\ Len(threads[1].raw) = 2
    /\ threads[1].raw[1].position = threads[1].raw[2].position
    /\ threads[1].response.predictions[1].qualifying = 1
    /\ threads[1].response.predictions[2].qualifying = 2
    /\ threads[1].response.predictions[2].position = 2

\* C23: a position predicted by fallback_prediction lies within
\* [1, fieldSize], fieldSize being the number of entrants of the race being
\* predicted, whatever the qualifying position, the code and the noise.
C23_FallbackWithinField ==
    \A k \in DOMAIN predictor.calls :
        predictor.calls[k].path # "model" =>
            \A r \in Range(predictor.predictions) :
                r.driver_code = predictor.calls[k].driver_code =>
                    /\ r.predicted_position >= 1
                    /\ r.predicted_position <= Len(predictor.qualifying_results)

\* the sum of the confidences of a sequence of records (1/10000)
RECURSIVE SumConfidence(_)
SumConfidence(recs) ==
    IF recs = <<>> THEN 0
    ELSE recs[1].confidence + SumConfidence(Tail(recs))

\* C24: the avgConfidence of a non-empty response is the arithmetic mean of
\* the confidences of exactly the returned records as an integer percentage
\* (the integer part of mean * 100), and lies within 40..95.
C24_AvgConfidenceIsMean ==
    pc = "done" =>
        LET recs == response.predictions
            total == SumConfidence(recs)
            p == response.avgConfidence
        IN /\ p * 100 * Len(recs) <= total
           /\ total < (p + 1) * 100 * Len(recs)
           /\ p >= 40
           /\ p <= 95

\* C24 witness: a response of two records with different confidences, the
\* input holding an unknown code as well, whose mean is not a whole percent
C24_Witness ==
    /\ pc = "done"
    /\ Len(sorted_quali) = 3
    /\ Len(response.predictions) = 2
    /\ response.predictions[1].confidence # response.predictions[2].confidence
    /\ SumConfidence(response.predictions) # response.avgConfidence * 200

\* the qualifying weight of weight dict w, 0.7 when missing (hundredths)
QualiOf(w) == IF "quali" \in DOMAIN w THEN w.quali ELSE 70

\* a is 68 + 10 x the qualifying weight q (hundredths) as an integer: the
\* integer part of 68 + 10 q
IsAccuracyOf(a, q) ==
    /\ a * 100 <= 6800 + 10 * q
    /\ 6800 + 10 * q < (a + 1) * 100

\* C25: the accuracy returned is 68 + 10 x the qualifying weight (0.7 when
\* missing) as an integer, whatever the qualifying input and the draws, and
\* lies within 68..78 for every qualifying weight in [0, 1].
C25_AccuracyFromQualiWeight ==
    /\ pc = "done" =>
          /\ IsAccuracyOf(response.accuracy, QualiOf(weights))
          /\ (QualiOf(weights) >= 0 /\ QualiOf(weights) <= 100) =>
                (response.accuracy >= 68 /\ response.accuracy <= 78)
    /\ calc.op = "stats" =>
          /\ IsAccuracyOf(calc.accuracy1, QualiOf(calc.w1))
          /\ calc.accuracy1 >= 68
          /\ calc.accuracy1 <= 78

\* C25 witness: qualifying weight 0.75 gives 75, the integer part of 75.5
C25_Witness ==
    /\ calc.op = "stats"
    /\ calc.w1 = [quali |-> 75]
    /\ calc.accuracy1 = 75

\* v (tenths) is 3.5 - 2 x the qualifying weight q (hundredths) rounded to
\* one decimal: the tenth nearest to it
IsVolatilityOf(v, q) ==
    /\ v * 10 - (350 - 2 * q) < 5
    /\ (350 - 2 * q) - v * 10 < 5

\* C26 as claimed: the volatility is 3.5 - 2 x the qualifying weight rounded
\* to one decimal, and for qualifying weights w1 < w2 in [0, 1] the
\* volatility for w2 is lower than the one for w1.
C26_VolatilityStrictlyDecreasing ==
    calc.op = "stats" =>
        /\ IsVolatilityOf(calc.volatility1, QualiOf(calc.w1))
        /\ QualiOf(calc.w1) < QualiOf(calc.w2) =>
              calc.volatility2 < calc.volatility1

\* C26 amended: the volatility is 3.5 - 2 x the qualifying weight rounded to
\* one decimal; for qualifying weights w1 < w2 in [0, 1] the volatility for
\* w2 is never higher than the one for w1, and it is lower whenever
\* w2 - w1 >= 0.1.
C26_VolatilityNonIncreasing ==
    calc.op = "stats" =>
        /\ IsVolatilityOf(calc.volatility1, QualiOf(calc.w1))
        /\ QualiOf(calc.w1) < QualiOf(calc.w2) =>
              calc.volatility2 <= calc.volatility1
        /\ QualiOf(calc.w2) - QualiOf(calc.w1) >= 10 =>
              calc.volatility2 < calc.volatility1

\* C26 witness: qualifying weights 0.50 and 0.52 both give volatility 2.5
C26_Witness ==
    /\ calc.op = "stats"
    /\ calc.w1 = [quali |-> 50]
    /\ calc.w2 = [quali |-> 52]
    /\ calc.volatility1 = 25
    /\ calc.volatility2 = 25

\* C27: the classifier handle is read-only after construction: no step of a
\* predict_race call (classifier calls that return or raise, fallback
\* predictions, the return or the KeyError) and no sequence of calls changes
\* self.model.
C27_ModelHandleReadOnly == [][predictor'.model = predictor.model]_vars

\* C27 witness: a predict_race call with a classifier loaded has returned
\* after one classifier call raised and another returned
C27_Witness ==
    /\ predictor.pc = "done"
    /\ predictor.model = "clf"
    /\ \E k \in DOMAIN predictor.calls : predictor.calls[k].path = "except"
    /\ \E k \in DOMAIN predictor.calls : predictor.calls[k].path = "model"

\* a season run is under way or over
InSeason == dl.pc \in {"loop", "break", "returned"}

\* a keyboard interrupt arrived in the round of log entry e
Interrupted(e) ==
    \/ e.ev = "KeyboardInterrupt"
    \/ \E k \in DOMAIN e.outs : e.outs[k] = "KeyboardInterrupt"
    \/ e.sv = "KeyboardInterrupt"

\* the round of log entry e was downloaded (the event was found and no
\* interrupt arrived) and its save completed
DownloadedAndSaved(e) ==
    /\ e.ev = "ok"
    /\ \A k \in DOMAIN e.outs : e.outs[k] # "KeyboardInterrupt"
    /\ e.sv = "ok"

\* C28: download_season_data attempts the rounds of the (possibly
\* max_rounds-truncated) calendar in calendar order; a round whose download
\* returns None or whose download or save raises an ordinary exception does
\* not keep the later rounds from being attempted: the run ends before the
\* last round only after a keyboard interrupt, which is always the last thing
\* attempted; success_count is the number of rounds both downloaded and
\* saved, and never exceeds total_count.
C28_SeasonAttemptsEveryRound ==
    InSeason =>
        /\ Len(dl.log) <= Len(dl.races)
        /\ \A k \in DOMAIN dl.log : dl.log[k].round = dl.races[k]
        /\ \A k \in DOMAIN dl.log : Interrupted(dl.log[k]) => k = Len(dl.log)
        /\ (dl.pc = "returned" /\ Len(dl.log) < Len(dl.races)) =>
              (Len(dl.log) > 0 /\ Interrupted(dl.log[Len(dl.log)]))
        /\ dl.success_count =
              Cardinality({k \in DOMAIN dl.log : DownloadedAndSaved(dl.log[k])})
        /\ dl.total_count = Len(dl.races)
        /\ dl.success_count <= dl.total_count

\* C28 witness: a season of three rounds has returned; the event lookup of
\* the first round failed, the save of the second raised, the third was
\* downloaded and saved
C28_Witness ==
    /\ dl.pc = "returned"
    /\ Len(dl.races) = 3
    /\ Len(dl.log) = 3
    /\ dl.log[1].ev = "Exception"
    /\ dl.log[2].sv = "Exception"
    /\ dl.log[3].sv = "ok"
    /\ dl.success_count = 1

\* a direct call of download_race_data has ended
RaceCalled == dl.pc \in {"race_returned", "race_raised", "saved"}

\* the session types of call c whose loading ended with results
LoadedWithResults(c) ==
    {c.session_types[k] : k \in {j \in DOMAIN c.outs : c.outs[j] = "results"}}

\* a call of download_race_data that meets no keyboard interrupt: failures of
\* sessions are isolated, a failed event lookup gives None, and
\* save_race_data given None writes nothing
FailuresIsolated ==
    RaceCalled =>
        LET c == dl.call IN
        /\ c.raised # "Exception"
        /\ (c.ev = "ok" /\ c.raised = "none") =>
              /\ c.value # NoneData
              /\ c.attempted = c.session_types
              /\ DOMAIN c.value.sessions = LoadedWithResults(c)
              /\ \A st \in DOMAIN c.value.sessions :
                    c.value.sessions[st].session_type = st
        /\ c.ev = "Exception" => (c.value = NoneData /\ c.raised = "none")
        /\ (dl.pc = "saved" /\ c.value = NoneData) =>
              (dl.written = {} /\ dl.raised = "none")

\* C29 as stated: download_race_data never raises; a failure while loading
\* one session type leaves the sessions already loaded untouched and the
\* remaining session types are still attempted, so the returned sessions map
\* holds exactly the session types that loaded with results; if the event
\* lookup fails the function returns None, and save_race_data given None
\* writes nothing.
C29_DownloadNeverRaises ==
    /\ RaceCalled => dl.call.raised = "none"
    /\ FailuresIsolated

\* C29 amended: download_race_data raises no ordinary exception: it raises
\* only when a keyboard interrupt arrives during the event lookup or a
\* session, and then it lets the interrupt through; otherwise it returns, a
\* failure while loading one session type leaves the sessions already loaded
\* untouched and the remaining session types are still attempted, so the
\* returned sessions map holds exactly the session types that loaded with
\* results; if the event lookup fails the function returns None, and
\* save_race_data given None writes nothing.
C29_DownloadRaisesOnlyInterrupt ==
    /\ RaceCalled =>
          (dl.call.raised # "none" <=>
             \/ dl.call.ev = "KeyboardInterrupt"
             \/ \E k \in DOMAIN dl.call.outs :
                   dl.call.outs[k] = "KeyboardInterrupt")
    /\ RaceCalled => dl.call.raised \in {"none", "KeyboardInterrupt"}
    /\ FailuresIsolated

\* C29 witness: of the session types FP1, Q and R the second raised while
\* loading; the call returned a sessions map holding FP1 and R
C29_Witness ==
    /\ dl.pc = "race_returned"
    /\ dl.call.session_types = <<"FP1", "Q", "R">>
    /\ dl.call.outs = <<"results", "Exception", "results">>
    /\ DOMAIN dl.call.value.sessions = {"FP1", "R"}

====
